---- MODULE Spec2Model ----
(***************************************************************************)
(* Model of the vibe terminal-session recorder (src-tauri): the command    *)
(* layer of main.rs (AppState with the two mutexes `db` and `pty`), the    *)
(* PtySession of pty.rs with its reader and writer threads and their two   *)
(* unbounded channels, and the sessions / events tables of db.rs.          *)
(*                                                                         *)
(* Commands are issued by the threads of Threads.  A command is cut at     *)
(* the places where it takes its second mutex, so that the lock order of   *)
(* each command is visible: the first action of a command takes its first  *)
(* lock and runs up to the second lock() call, the second action takes     *)
(* the second lock and runs to the return.  A lock() that cannot be taken  *)
(* is an action that is not enabled.                                       *)
(***************************************************************************)
EXTENDS Integers, Sequences, FiniteSets, TLC

(* ------------------------------ bounds -------------------------------- *)
\* what a behaviour may consume in total: sessions created, buffers
\* accepted by write_input, chunks read by the reader threads, reader
\* threads ended, commands rows inserted, and ticks of the wall clock (see Used)
MaxOps == 3

Threads == {"t1", "t2"}
NoThread == "none"
SessIds == 1 .. MaxOps

(* Option<T>: None is the empty sequence, Some(x) the one-element one. *)
None == << >>
Some(x) == << x >>
IsSome(o) == o # << >>
Unwrap(o) == o[1]

(* ------------------------------ bytes --------------------------------- *)
\* the Vec<u8> arguments of send_input
InputBuffers == { <<65>>, <<195, 169>> }
\* what one read() of the pty master may return (n > 0)
OutputChunks == { <<195>>, <<169>> }
\* the (cols, rows) arguments of start_session and resize_pty
StartSizes == { <<80, 24>> }
ResizeSizes == { <<0, 24>>, <<100, 30>> }
\* the input and exit_code arguments of create_command and end_command
CommandInputs == { "ls", "pwd" }
ExitCodes == { 0, 1 }

REPLACEMENT == 65533

RECURSIVE Concat(_)
Concat(chunks) ==
    IF chunks = << >> THEN << >> ELSE Head(chunks) \o Concat(Tail(chunks))

IsPrefix(p, s) == Len(p) <= Len(s) /\ SubSeq(s, 1, Len(p)) = p

(* String::from_utf8_lossy on the bytes below 0xE0: an ASCII byte is its   *)
(* own code point, a two-byte lead followed by a continuation byte is one  *)
(* code point, every other byte becomes U+FFFD.                            *)
RECURSIVE from_utf8_lossy(_)
from_utf8_lossy(b) ==
    IF b = << >> THEN << >>
    ELSE IF b[1] < 128 THEN << b[1] >> \o from_utf8_lossy(Tail(b))
    ELSE IF /\ b[1] >= 194 /\ b[1] <= 223 /\ Len(b) >= 2
            /\ b[2] >= 128 /\ b[2] <= 191
         THEN << (b[1] - 192) * 64 + (b[2] - 128) >> \o from_utf8_lossy(Tail(Tail(b)))
    ELSE << REPLACEMENT >> \o from_utf8_lossy(Tail(b))

(* The bytes of a String (its UTF-8 encoding), for the code points        *)
(* from_utf8_lossy produces here: one byte below U+0080, two below        *)
(* U+0800, three otherwise (U+FFFD is EF BF BD).                          *)
RECURSIVE as_bytes(_)
as_bytes(text) ==
    IF text = << >> THEN << >>
    ELSE IF text[1] < 128 THEN << text[1] >> \o as_bytes(Tail(text))
    ELSE IF text[1] < 2048
         THEN << 192 + (text[1] \div 64), 128 + (text[1] % 64) >> \o as_bytes(Tail(text))
    ELSE << 224 + (text[1] \div 4096), 128 + ((text[1] \div 64) % 64),
            128 + (text[1] % 64) >> \o as_bytes(Tail(text))

(* ------------------------------ state --------------------------------- *)
VARIABLES
    pc,          \* per command thread: where it is in its command
    loc,         \* per command thread: its locals (session id, data)
    dbLock,      \* AppState.db : the thread holding the mutex, or NoThread
    ptyLock,     \* AppState.pty: the thread holding the mutex, or NoThread
    pty,         \* AppState.pty: Option<PtySession>, by session id
    sessions,    \* table sessions, in insertion order
    events,      \* table events, in insertion order
    now,         \* the latest time Utc::now() has returned
    handle,      \* per session: where its PtySession value is
    inq,         \* per session: channel writer_tx -> writer_rx
    outq,        \* per session: channel output_tx -> output_rx
    written,     \* per session: the bytes written to the pty master
    size,        \* per session: the PtySize of the pty
    reader,      \* per session: state of the reader thread
    writer,      \* per session: state of the writer thread
    accepted,    \* per session: the buffers write_input has accepted, in order
    readChunks,  \* per session: the chunks the reader thread has read, in order
    polled,      \* per session: the chunks read_output has returned, in order
    commands,    \* table commands, in insertion order
    ret          \* what the step just taken returned to a caller, if anything

vars == << pc, loc, dbLock, ptyLock, pty, sessions, events, now, handle, inq,
           outq, written, size, reader, writer, accepted, readChunks, polled,
           commands, ret >>

locks == << dbLock, ptyLock >>
tables == << sessions, events >>
pumps == << inq, outq, written, size, reader, writer, accepted, readChunks, polled >>

RECURSIVE TotalLen(_, _)
TotalLen(f, n) == IF n = 0 THEN 0 ELSE Len(f[n]) + TotalLen(f, n - 1)

\* what the behaviour has consumed of MaxOps so far
Used ==
    Len(sessions) + TotalLen(accepted, MaxOps) + TotalLen(readChunks, MaxOps)
        + Cardinality({s \in SessIds : reader[s] = "done"}) + Len(commands) + now

NoLocals == [sid |-> 0, data |-> << >>]
Ret(op, res) == [op |-> op, res |-> res]
NoRet == Ret("none", "none")

(* --------------------------- crossbeam channel ------------------------ *)
\* variant of ChanSend that queues the message first instead of last
ChanSend_front(q, rxAlive, data) ==
    IF rxAlive THEN [ok |-> TRUE, q |-> << data >> \o q]
               ELSE [ok |-> FALSE, q |-> q]

\* Sender::send on an unbounded channel: fails once the receiver is dropped
ChanSend(q, rxAlive, data) ==
    IF rxAlive THEN [ok |-> TRUE, q |-> Append(q, data)]
               ELSE [ok |-> FALSE, q |-> q]

\* variant of ChanTryRecv that leaves the message it returns in the queue
ChanTryRecv_peek(q) ==
    IF q = << >> THEN [val |-> None, q |-> q]
                 ELSE [val |-> Some(Head(q)), q |-> q]

\* Receiver::try_recv(): the oldest message, or an error when there is none
ChanTryRecv(q) ==
    IF q = << >> THEN [val |-> None, q |-> q]
                 ELSE [val |-> Some(Head(q)), q |-> Tail(q)]

(* ------------------------------- db.rs -------------------------------- *)
\* Uuid::new_v4(): an id no earlier row has
NewSessionId(ss) == Len(ss) + 1

\* Utc::now(): the wall clock does not go back
UtcNow == IF Used < MaxOps THEN now .. (now + MaxOps - Used) ELSE {now}

\* INSERT INTO sessions: ended_at is left NULL (the columns started_at, cwd
\* and shell are written once and read by no operation modelled here)
Db_create_session(ss) ==
    Append(ss, [id |-> NewSessionId(ss), ended_at |-> None])

\* variant of Db_end_session whose UPDATE has no WHERE clause
Db_end_session_all(ss, id, ts) ==
    [i \in DOMAIN ss |-> [ss[i] EXCEPT !.ended_at = Some(ts)]]

\* UPDATE sessions SET ended_at = ?1 WHERE id = ?2
Db_end_session(ss, id, ts) ==
    [i \in DOMAIN ss |->
        IF ss[i].id = id THEN [ss[i] EXCEPT !.ended_at = Some(ts)] ELSE ss[i]]

\* variant of Db_add_event whose INSERT is run twice
Db_add_event_twice(ev, sid, kind, data, ts) ==
    Append(Append(ev, [session_id |-> sid, ts |-> ts, kind |-> kind, data |-> data]),
           [session_id |-> sid, ts |-> ts, kind |-> kind, data |-> data])

\* INSERT INTO events (session_id, ts, kind, data)
Db_add_event(ev, sid, kind, data, ts) ==
    Append(ev, [session_id |-> sid, ts |-> ts, kind |-> kind, data |-> data])

\* SELECT ... FROM events WHERE session_id = ?1 ORDER BY ts ASC: the rows of
\* the session in ascending ts; SQL leaves the order of rows of equal ts
\* open, so this is the set of the results the query may give
Db_get_events(ev, sid) ==
    LET rows == {j \in DOMAIN ev : ev[j].session_id = sid}
        n == Cardinality(rows)
        orders == {f \in [1 .. n -> rows] :
                      /\ \A a, b \in 1 .. n : a # b => f[a] # f[b]
                      /\ \A a, b \in 1 .. n : a < b => ev[f[a]].ts <= ev[f[b]].ts}
    IN {[a \in 1 .. n |-> ev[f[a]]] : f \in orders}

\* Uuid::new_v4() of create_command
NewCommandId(cs) == Len(cs) + 1

\* INSERT INTO commands (id, session_id, started_at, input): ended_at and
\* exit_code are left NULL
Db_create_command(cs, sid, input, ts) ==
    Append(cs, [id |-> NewCommandId(cs), session_id |-> sid, started_at |-> ts,
                ended_at |-> None, exit_code |-> None, input |-> input])

\* WHERE session_id = ?1 AND ended_at IS NULL
OpenCommands(cs, sid) ==
    {i \in DOMAIN cs : cs[i].session_id = sid /\ ~IsSome(cs[i].ended_at)}

\* ... ORDER BY started_at DESC LIMIT 1: the rows the SELECT of end_command
\* may return (any one of those with the greatest started_at)
MostRecentOpen(cs, sid) ==
    {i \in OpenCommands(cs, sid) :
        \A j \in OpenCommands(cs, sid) : cs[j].started_at <= cs[i].started_at}

\* UPDATE commands SET ended_at = ?1, exit_code = ?2 WHERE id = ?3
Db_end_command(cs, id, code, ts) ==
    [i \in DOMAIN cs |->
        IF cs[i].id = id
        THEN [cs[i] EXCEPT !.ended_at = Some(ts), !.exit_code = Some(code)]
        ELSE cs[i]]

(* ------------------------------- pty.rs ------------------------------- *)
WriterExited(s) == writer[s] \in {"failed", "closed"}
ReaderExited(s) == reader[s] = "done"

\* variant of write_input that does not notice that writer_rx is gone
Pty_write_input_blind(s, data) == ChanSend(inq[s], TRUE, data)

\* PtySession::write_input: writer_tx.send(data.to_vec())
Pty_write_input(s, data) == ChanSend(inq[s], ~WriterExited(s), data)

\* PtySession::read_output: output_rx.try_recv().ok()
Pty_read_output(s) == ChanTryRecv(outq[s])

\* dropping a PtySession drops output_rx (the channel discards its messages)
\* and writer_tx; the JoinHandles are dropped, which detaches the threads
\* (the pty pair is closed with it: its size is no longer defined)
DropHandle(h, s) == [h EXCEPT ![s] = "dropped"]
DropOutq(q, s) == [q EXCEPT ![s] = << >>]
DropSize(z, s) == [z EXCEPT ![s] = << 0, 0 >>]

Init ==
    /\ pc = [t \in Threads |-> "idle"]
    /\ loc = [t \in Threads |-> NoLocals]
    /\ dbLock = NoThread
    /\ ptyLock = NoThread
    /\ pty = None
    /\ sessions = << >>
    /\ events = << >>
    /\ now = 0
    /\ handle = [s \in SessIds |-> "none"]
    /\ inq = [s \in SessIds |-> << >>]
    /\ outq = [s \in SessIds |-> << >>]
    /\ written = [s \in SessIds |-> << >>]
    /\ size = [s \in SessIds |-> << 0, 0 >>]
    /\ reader = [s \in SessIds |-> "none"]
    /\ writer = [s \in SessIds |-> "none"]
    /\ accepted = [s \in SessIds |-> << >>]
    /\ readChunks = [s \in SessIds |-> << >>]
    /\ polled = [s \in SessIds |-> << >>]
    /\ commands = << >>
    /\ ret = NoRet

(* ------------------------------- main.rs ------------------------------ *)
Idle(t) == pc[t] = "idle"
Return(t, r) ==
    /\ pc' = [pc EXCEPT ![t] = "idle"]
    /\ loc' = [loc EXCEPT ![t] = NoLocals]
    /\ ret' = r

(* start_session, up to `state.pty.lock()`: takes the db mutex, inserts   *)
(* the session row, constructs the PtySession.  A `?` that returns drops  *)
(* the db guard.  PtySession::new fails in openpty, spawn_command or      *)
(* try_clone_reader, before any thread is spawned ("SpawnError");         *)
(* take_writer fails only when called twice on one master, which          *)
(* PtySession::new never does.                                            *)
start_session(t) ==
    /\ UNCHANGED commands
    /\ Idle(t)
    /\ dbLock = NoThread
    /\ Used < MaxOps
    /\ \E sz \in StartSizes, dbOk \in BOOLEAN, spawn \in {"ok", "SpawnError"} :
         LET id == NewSessionId(sessions) IN
         IF ~dbOk
         THEN /\ Return(t, Ret("start_session", "Failed to create session"))
              /\ UNCHANGED << locks, pty, tables, now, handle, pumps >>
         ELSE /\ sessions' = Db_create_session(sessions)
              /\ IF spawn = "ok"
                 THEN /\ handle' = [handle EXCEPT ![id] = "local"]
                      /\ size' = [size EXCEPT ![id] = sz]
                      /\ reader' = [reader EXCEPT ![id] = "run"]
                      /\ writer' = [writer EXCEPT ![id] = "run"]
                      /\ dbLock' = t
                      /\ pc' = [pc EXCEPT ![t] = "start_store"]
                      /\ loc' = [loc EXCEPT ![t] = [sid |-> id, data |-> << >>]]
                      /\ ret' = NoRet
                 ELSE /\ UNCHANGED << handle, size, reader, writer, dbLock >>
                      /\ Return(t, Ret("start_session", "Failed to create PTY"))
              /\ UNCHANGED << ptyLock, pty, events, now, inq, outq, written,
                              accepted, readChunks, polled >>

(* start_session from `state.pty.lock()` to the return: `*pty = Some(..)` *)
(* drops the PtySession the registry held, if any.                        *)
start_session_store(t) ==
    /\ UNCHANGED commands
    /\ pc[t] = "start_store"
    /\ ptyLock = NoThread
    /\ LET id == loc[t].sid
           dropped == IF IsSome(pty) THEN DropHandle(handle, Unwrap(pty)) ELSE handle
       IN /\ handle' = [dropped EXCEPT ![id] = "registry"]
          /\ outq' = IF IsSome(pty) THEN DropOutq(outq, Unwrap(pty)) ELSE outq
          /\ size' = IF IsSome(pty) THEN DropSize(size, Unwrap(pty)) ELSE size
          /\ pty' = Some(id)
          /\ Return(t, Ret("start_session", "Ok"))
    /\ dbLock' = NoThread
    /\ UNCHANGED << ptyLock, tables, now, inq, written, reader, writer,
                    accepted, readChunks, polled >>

(* send_input up to `state.db.lock()` *)
send_input(t) ==
    /\ UNCHANGED commands
    /\ Idle(t)
    /\ ptyLock = NoThread
    /\ \E data \in InputBuffers :
         IF ~IsSome(pty)
         THEN /\ Return(t, Ret("send_input", "Ok"))
              /\ UNCHANGED << locks, pty, tables, now, handle, pumps >>
         ELSE LET s == Unwrap(pty)
                  w == Pty_write_input(s, data)
              IN IF ~w.ok
                 THEN /\ Return(t, Ret("send_input", "Failed to write input"))
                      /\ UNCHANGED << locks, pty, tables, now, handle, pumps >>
                 ELSE /\ Used < MaxOps
                      /\ inq' = [inq EXCEPT ![s] = w.q]
                      /\ accepted' = [accepted EXCEPT ![s] = Append(@, data)]
                      /\ ptyLock' = t
                      /\ pc' = [pc EXCEPT ![t] = "send_log"]
                      /\ loc' = [loc EXCEPT ![t] = [sid |-> s, data |-> data]]
                      /\ UNCHANGED << dbLock, pty, tables, now, handle, outq, written,
                                      size, reader, writer, readChunks, polled >>
                      /\ ret' = NoRet

(* send_input from `state.db.lock()` to the return *)
send_input_log(t) ==
    /\ UNCHANGED commands
    /\ pc[t] = "send_log"
    /\ dbLock = NoThread
    /\ \E dbOk \in BOOLEAN, ts \in UtcNow :
         IF dbOk
         THEN /\ events' = Db_add_event(events, loc[t].sid, "user_in",
                                        from_utf8_lossy(loc[t].data), ts)
              /\ now' = ts
              /\ Return(t, Ret("send_input", "Ok"))
         ELSE /\ events' = events
              /\ now' = now
              /\ Return(t, Ret("send_input", "Failed to log input"))
    /\ ptyLock' = NoThread
    /\ UNCHANGED << dbLock, pty, sessions, handle, pumps >>

\* variant of read_output that waits for a chunk with recv() while the
\* output queue of the registry's session is empty
read_output_blocking(t) ==
    /\ UNCHANGED commands
    /\ Idle(t)
    /\ ptyLock = NoThread
    /\ IF ~IsSome(pty)
       THEN /\ Return(t, Ret("read_output", "Ok(None)"))
            /\ UNCHANGED << locks, pty, tables, now, handle, pumps >>
       ELSE LET s == Unwrap(pty)
                r == Pty_read_output(s)
            IN /\ IsSome(r.val)
               /\ outq' = [outq EXCEPT ![s] = r.q]
               /\ polled' = [polled EXCEPT ![s] = Append(@, Unwrap(r.val))]
               /\ ptyLock' = t
               /\ pc' = [pc EXCEPT ![t] = "read_log"]
               /\ loc' = [loc EXCEPT ![t] = [sid |-> s, data |-> Unwrap(r.val)]]
               /\ UNCHANGED << dbLock, pty, tables, now, handle, inq, written,
                               size, reader, writer, accepted, readChunks >>
               /\ ret' = NoRet

(* read_output up to `state.db.lock()` *)
read_output(t) ==
    /\ UNCHANGED commands
    /\ Idle(t)
    /\ ptyLock = NoThread
    /\ IF ~IsSome(pty)
       THEN /\ Return(t, Ret("read_output", "Ok(None)"))
            /\ UNCHANGED << locks, pty, tables, now, handle, pumps >>
       ELSE LET s == Unwrap(pty)
                r == Pty_read_output(s)
            IN IF ~IsSome(r.val)
               THEN /\ Return(t, Ret("read_output", "Ok(None)"))
                    /\ UNCHANGED << locks, pty, tables, now, handle, pumps >>
               ELSE /\ outq' = [outq EXCEPT ![s] = r.q]
                    /\ polled' = [polled EXCEPT ![s] = Append(@, Unwrap(r.val))]
                    /\ ptyLock' = t
                    /\ pc' = [pc EXCEPT ![t] = "read_log"]
                    /\ loc' = [loc EXCEPT ![t] = [sid |-> s, data |-> Unwrap(r.val)]]
                    /\ UNCHANGED << dbLock, pty, tables, now, handle, inq, written,
                                    size, reader, writer, accepted, readChunks >>
                    /\ ret' = NoRet

\* variant of read_output_log that logs under the id of the first session row
read_output_log_first(t) ==
    /\ UNCHANGED commands
    /\ pc[t] = "read_log"
    /\ dbLock = NoThread
    /\ \E dbOk \in BOOLEAN, ts \in UtcNow :
         IF dbOk
         THEN /\ events' = Db_add_event(events, sessions[1].id, "pty_out",
                                        from_utf8_lossy(loc[t].data), ts)
              /\ now' = ts
         ELSE /\ events' = events
              /\ now' = now
    /\ Return(t, Ret("read_output", "Ok(Some)"))
    /\ ptyLock' = NoThread
    /\ UNCHANGED << dbLock, pty, sessions, handle, pumps >>

\* variant of read_output_log that returns the failure of add_event
read_output_log_strict(t) ==
    /\ UNCHANGED commands
    /\ pc[t] = "read_log"
    /\ dbLock = NoThread
    /\ \E dbOk \in BOOLEAN, ts \in UtcNow :
         IF dbOk
         THEN /\ events' = Db_add_event(events, loc[t].sid, "pty_out",
                                        from_utf8_lossy(loc[t].data), ts)
              /\ now' = ts
              /\ Return(t, Ret("read_output", "Ok(Some)"))
         ELSE /\ events' = events
              /\ now' = now
              /\ Return(t, Ret("read_output", "Failed to log output"))
    /\ ptyLock' = NoThread
    /\ UNCHANGED << dbLock, pty, sessions, handle, pumps >>

(* read_output from `state.db.lock()` to the return: `.ok()` discards the *)
(* result of add_event.                                                   *)
read_output_log(t) ==
    /\ UNCHANGED commands
    /\ pc[t] = "read_log"
    /\ dbLock = NoThread
    /\ \E dbOk \in BOOLEAN, ts \in UtcNow :
         IF dbOk
         THEN /\ events' = Db_add_event(events, loc[t].sid, "pty_out",
                                        from_utf8_lossy(loc[t].data), ts)
              /\ now' = ts
         ELSE /\ events' = events
              /\ now' = now
    /\ Return(t, Ret("read_output", "Ok(Some)"))
    /\ ptyLock' = NoThread
    /\ UNCHANGED << dbLock, pty, sessions, handle, pumps >>

\* PtySession::resize: the size goes to the OS unchecked; the OS call may fail
Pty_resize(cur, sz, osOk) ==
    IF osOk THEN [ok |-> TRUE, size |-> sz] ELSE [ok |-> FALSE, size |-> cur]

\* variant of resize_pty_call that reports a missing session as an error
resize_pty_call_strict(t, sz, osOk) ==
    /\ UNCHANGED commands
    /\ Idle(t)
    /\ ptyLock = NoThread
    /\ IF ~IsSome(pty)
       THEN /\ Return(t, Ret("resize_pty", "Failed to resize"))
            /\ size' = size
       ELSE LET s == Unwrap(pty)
                r == Pty_resize(size[s], sz, osOk)
            IN /\ size' = [size EXCEPT ![s] = r.size]
               /\ Return(t, Ret("resize_pty",
                                IF r.ok THEN "Ok" ELSE "Failed to resize"))
    /\ UNCHANGED << locks, pty, tables, now, handle, inq, outq, written, reader,
                    writer, accepted, readChunks, polled >>

\* resize_pty(cols, rows) with sz = (cols, rows), the OS call succeeding or not
resize_pty_call(t, sz, osOk) ==
    /\ UNCHANGED commands
    /\ Idle(t)
    /\ ptyLock = NoThread
    /\ IF ~IsSome(pty)
       THEN /\ Return(t, Ret("resize_pty", "Ok"))
            /\ size' = size
       ELSE LET s == Unwrap(pty)
                r == Pty_resize(size[s], sz, osOk)
            IN /\ size' = [size EXCEPT ![s] = r.size]
               /\ Return(t, Ret("resize_pty",
                                IF r.ok THEN "Ok" ELSE "Failed to resize"))
    /\ UNCHANGED << locks, pty, tables, now, handle, inq, outq, written, reader,
                    writer, accepted, readChunks, polled >>

resize_pty(t) == \E sz \in ResizeSizes, osOk \in BOOLEAN : resize_pty_call(t, sz, osOk)

\* variant of end_session_none that reports the missing session as an error
end_session_none_err(t) ==
    /\ UNCHANGED commands
    /\ Idle(t)
    /\ ptyLock = NoThread
    /\ ~IsSome(pty)
    /\ Return(t, Ret("end_session", "Failed to end session"))
    /\ UNCHANGED << locks, pty, tables, now, handle, pumps >>

\* end_session when `pty.take()` is None
end_session_none(t) ==
    /\ UNCHANGED commands
    /\ Idle(t)
    /\ ptyLock = NoThread
    /\ ~IsSome(pty)
    /\ Return(t, Ret("end_session", "Ok"))
    /\ UNCHANGED << locks, pty, tables, now, handle, pumps >>

\* variant of TakeLeaves that reads the registry without emptying it
TakeLeaves_keep(p) == p

\* Option::take(): what is left in the registry
TakeLeaves(p) == None

\* end_session when `pty.take()` is Some(session), up to `state.db.lock()`
end_session_take(t) ==
    /\ UNCHANGED commands
    /\ Idle(t)
    /\ ptyLock = NoThread
    /\ IsSome(pty)
    /\ pty' = TakeLeaves(pty)
    /\ handle' = [handle EXCEPT ![Unwrap(pty)] = "taken"]
    /\ ptyLock' = t
    /\ pc' = [pc EXCEPT ![t] = "end_close"]
    /\ loc' = [loc EXCEPT ![t] = [sid |-> Unwrap(pty), data |-> << >>]]
    /\ UNCHANGED << dbLock, tables, now, pumps >>
    /\ ret' = NoRet

end_session(t) == end_session_none(t) \/ end_session_take(t)

(* end_session from `state.db.lock()` to the return: `session` is dropped *)
(* when the block is left, by `?` or at its end.                          *)
end_session_close(t) ==
    /\ UNCHANGED commands
    /\ pc[t] = "end_close"
    /\ dbLock = NoThread
    /\ LET s == loc[t].sid IN
       /\ \E dbOk \in BOOLEAN, ts \in UtcNow :
            IF dbOk
            THEN /\ sessions' = Db_end_session(sessions, s, ts)
                 /\ now' = ts
                 /\ Return(t, Ret("end_session", "Ok"))
            ELSE /\ sessions' = sessions
                 /\ now' = now
                 /\ Return(t, Ret("end_session", "Failed to end session"))
       /\ handle' = DropHandle(handle, s)
       /\ outq' = DropOutq(outq, s)
       /\ size' = DropSize(size, s)
    /\ ptyLock' = NoThread
    /\ UNCHANGED << dbLock, pty, events, inq, written, reader, writer,
                    accepted, readChunks, polled >>

(* ---------------------------- pump threads ---------------------------- *)
\* output_rx exists from PtySession::new until the PtySession is dropped
OutputRxAlive(s) == handle[s] \in {"local", "registry", "taken"}
\* writer_tx likewise
WriterTxAlive(s) == handle[s] \in {"local", "registry", "taken"}

(* one iteration of the reader thread's loop: a read of n > 0 bytes that  *)
(* is sent on output_tx (the thread ends when the send fails)             *)
ReaderRead(s) ==
    /\ UNCHANGED commands
    /\ reader[s] = "run"
    /\ Used < MaxOps
    /\ \E chunk \in OutputChunks :
         LET r == ChanSend(outq[s], OutputRxAlive(s), chunk) IN
         /\ readChunks' = [readChunks EXCEPT ![s] = Append(@, chunk)]
         /\ outq' = [outq EXCEPT ![s] = r.q]
         /\ reader' = [reader EXCEPT ![s] = IF r.ok THEN "run" ELSE "done"]
    /\ UNCHANGED << pc, loc, locks, pty, tables, now, handle, inq, written, size,
                    writer, accepted, polled >>
    /\ ret' = NoRet

\* the read returns Ok(0) or Err: the thread ends
ReaderEof(s) ==
    /\ UNCHANGED commands
    /\ reader[s] = "run"
    /\ Used < MaxOps
    /\ reader' = [reader EXCEPT ![s] = "done"]
    /\ UNCHANGED << pc, loc, locks, pty, tables, now, handle, inq, outq, written,
                    size, writer, accepted, readChunks, polled >>
    /\ ret' = NoRet

\* write_all(data) that fails after k < Len(data) bytes, or succeeds (k = Len(data))
WriteAll(w, data, k) == w \o SubSeq(data, 1, k)

\* variant of WriterWrite that writes only while no command holds the
\* registry mutex
WriterWrite_locked(s) ==
    /\ UNCHANGED commands
    /\ ptyLock = NoThread
    /\ writer[s] = "run"
    /\ inq[s] # << >>
    /\ \E k \in 0 .. Len(Head(inq[s])) :
         /\ written' = [written EXCEPT ![s] = WriteAll(@, Head(inq[s]), k)]
         /\ IF k = Len(Head(inq[s]))
            THEN /\ inq' = [inq EXCEPT ![s] = Tail(@)]
                 /\ writer' = writer
            ELSE /\ inq' = [inq EXCEPT ![s] = << >>]
                 /\ writer' = [writer EXCEPT ![s] = "failed"]
    /\ UNCHANGED << pc, loc, locks, pty, tables, now, handle, outq, size, reader,
                    accepted, readChunks, polled >>
    /\ ret' = NoRet

(* one iteration of the writer thread's loop: recv() a buffer, write_all  *)
(* it; `break` on a failed write drops writer_rx and with it the queue.   *)
(* The Mutex around the writer is owned by this thread alone, so lock()   *)
(* never fails.                                                           *)
WriterWrite(s) ==
    /\ UNCHANGED commands
    /\ writer[s] = "run"
    /\ inq[s] # << >>
    /\ \E k \in 0 .. Len(Head(inq[s])) :
         /\ written' = [written EXCEPT ![s] = WriteAll(@, Head(inq[s]), k)]
         /\ IF k = Len(Head(inq[s]))
            THEN /\ inq' = [inq EXCEPT ![s] = Tail(@)]
                 /\ writer' = writer
            ELSE /\ inq' = [inq EXCEPT ![s] = << >>]
                 /\ writer' = [writer EXCEPT ![s] = "failed"]
    /\ UNCHANGED << pc, loc, locks, pty, tables, now, handle, outq, size, reader,
                    accepted, readChunks, polled >>
    /\ ret' = NoRet

\* recv() returns Err: the queue is empty and writer_tx is dropped
WriterClosed(s) ==
    /\ UNCHANGED commands
    /\ writer[s] = "run"
    /\ inq[s] = << >>
    /\ ~WriterTxAlive(s)
    /\ writer' = [writer EXCEPT ![s] = "closed"]
    /\ UNCHANGED << pc, loc, locks, pty, tables, now, handle, inq, outq, written,
                    size, reader, accepted, readChunks, polled >>
    /\ ret' = NoRet

Next ==
    \/ \E t \in Threads : start_session(t)
    \/ \E t \in Threads : start_session_store(t)
    \/ \E t \in Threads : send_input(t)
    \/ \E t \in Threads : send_input_log(t)
    \/ \E t \in Threads : read_output(t)
    \/ \E t \in Threads : read_output_log(t)
    \/ \E t \in Threads : resize_pty(t)
    \/ \E t \in Threads : end_session(t)
    \/ \E t \in Threads : end_session_close(t)
    \/ \E s \in SessIds : ReaderRead(s)
    \/ \E s \in SessIds : ReaderEof(s)
    \/ \E s \in SessIds : WriterWrite(s)
    \/ \E s \in SessIds : WriterClosed(s)

Spec == Init /\ [][Next]_vars

(* What the scheduler gives: a thread that can take its next step takes   *)
(* it.  That holds for the writer thread (its recv() returns once there   *)
(* is a buffer or the sender is gone, its write is left to the OS) and    *)
(* for the second half of a command once the mutex it needs is free.      *)
(* Nothing of the kind holds for the reader thread: its read() returns    *)
(* when the child process writes to the pty or closes it, which is up to  *)
(* the child.                                                             *)
SpecFair ==
    /\ Init /\ [][Next]_vars
    /\ \A s \in SessIds : WF_vars(WriterWrite(s)) /\ WF_vars(WriterClosed(s))
    /\ \A t \in Threads :
          /\ WF_vars(start_session_store(t))
          /\ WF_vars(send_input_log(t))
          /\ WF_vars(read_output_log(t))
          /\ WF_vars(end_session_close(t))

(* ----------------------- db.rs called on its own ---------------------- *)
\* the tables apart, nothing of the program moves in a call of a Database method
AppUnchanged ==
    UNCHANGED << pc, loc, locks, pty, handle, pumps, ret >>

\* Database::create_session
create_session ==
    /\ Used < MaxOps
    /\ sessions' = Db_create_session(sessions)
    /\ UNCHANGED << events, commands, now >>
    /\ AppUnchanged

\* Database::create_command for the session row sid: Utc::now() in
\* milliseconds (two calls can get the same value), then the INSERT
create_command(sid, input) ==
    /\ sid \in DOMAIN sessions
    /\ Used < MaxOps
    /\ \E dbOk \in BOOLEAN, ts \in UtcNow :
         /\ now' = ts
         /\ commands' = IF dbOk THEN Db_create_command(commands, sid, input, ts)
                                ELSE commands
    /\ UNCHANGED << sessions, events >>
    /\ AppUnchanged

\* Database::end_command: Utc::now(), the SELECT, and the UPDATE of the row
\* found, if any
end_command(sid, exit_code) ==
    /\ sid \in DOMAIN sessions
    /\ \E dbOk \in BOOLEAN, ts \in UtcNow :
         /\ now' = ts
         /\ IF dbOk /\ MostRecentOpen(commands, sid) # {}
            THEN \E i \in MostRecentOpen(commands, sid) :
                    commands' = Db_end_command(commands, commands[i].id, exit_code, ts)
            ELSE commands' = commands
    /\ UNCHANGED << sessions, events >>
    /\ AppUnchanged

NextDb ==
    \/ create_session
    \/ \E sid \in SessIds, input \in CommandInputs : create_command(sid, input)
    \/ \E sid \in SessIds, exit_code \in ExitCodes : end_command(sid, exit_code)

SpecDb == Init /\ [][NextDb]_vars

(* ------------------------------ properties ---------------------------- *)
EndedAt(s) == sessions[s].ended_at
Created(s) == s \in DOMAIN sessions
OpenSessions == {i \in DOMAIN sessions : ~IsSome(sessions[i].ended_at)}
EventsOf(ev, s) == {j \in DOMAIN ev : ev[j].session_id = s}
\* the step is a command that takes its lock, runs and returns in one piece
ReturnsAtOnce == pc' = pc /\ ret' # NoRet

(* C1: whenever a start_session call returns while the registry holds a    *)
(* session S, it returns an error and S is untouched: the registry still  *)
(* holds S, and S's handle, queues and pump threads are as before.        *)
C1_StartWhileActiveFails ==
    [][(ret'.op = "start_session" /\ IsSome(pty)) =>
          /\ ret'.res # "Ok"
          /\ pty' = pty
          /\ handle'[Unwrap(pty)] = "registry"
          /\ inq'[Unwrap(pty)] = inq[Unwrap(pty)]
          /\ outq'[Unwrap(pty)] = outq[Unwrap(pty)]
          /\ reader'[Unwrap(pty)] = reader[Unwrap(pty)]
          /\ writer'[Unwrap(pty)] = writer[Unwrap(pty)]]_vars

(* C2: at most one row of the sessions table has a null ended_at.         *)
C2_AtMostOneOpenSession == Cardinality(OpenSessions) <= 1

(* C3: per session, the bytes written to the pty master are a prefix of   *)
(* the concatenation of the buffers write_input accepted, in order; as    *)
(* long as no write has failed, the bytes written followed by the buffers *)
(* still queued are exactly that concatenation, so the two are equal once *)
(* the queue is drained.                                                  *)
C3_InputFifo ==
    \A s \in SessIds :
        /\ IsPrefix(written[s], Concat(accepted[s]))
        /\ writer[s] # "failed" =>
               written[s] \o Concat(inq[s]) = Concat(accepted[s])

\* two different buffers were accepted and both are written, the queue drained
C3_Witness ==
    \E s \in SessIds :
        /\ Len(accepted[s]) = 2
        /\ accepted[s][1] # accepted[s][2]
        /\ inq[s] = << >>
        /\ writer[s] = "run"
        /\ written[s] = Concat(accepted[s])

(* C4: per session, the chunks read_output has returned are, in order, a  *)
(* prefix of the chunks the reader thread has read; while the session's   *)
(* handle exists, the chunks returned followed by the chunks still queued *)
(* are exactly the chunks read: none lost, none duplicated.               *)
C4_OutputFifo ==
    \A s \in SessIds :
        /\ IsPrefix(polled[s], readChunks[s])
        /\ OutputRxAlive(s) => polled[s] \o outq[s] = readChunks[s]

\* two different chunks were read and both were returned, in that order
C4_Witness ==
    \E s \in SessIds :
        /\ Len(polled[s]) = 2
        /\ polled[s][1] # polled[s][2]
        /\ polled[s] = readChunks[s]
        /\ handle[s] = "registry"

(* C5: an end_session call made while the registry is empty returns Ok    *)
(* and changes neither the registry nor any session or event row nor any  *)
(* session's handle, queues or threads.                                   *)
C5_EndSessionIdempotent ==
    [][(ret'.op = "end_session" /\ ReturnsAtOnce /\ ~IsSome(pty)) =>
          /\ ret'.res = "Ok"
          /\ UNCHANGED << pty, sessions, events, handle, pumps >>]_vars

\* end_session has returned Ok though no session row was ever closed
C5_Witness ==
    /\ ret = Ret("end_session", "Ok")
    /\ ~IsSome(pty)
    /\ sessions # << >>
    /\ \A i \in DOMAIN sessions : ~IsSome(sessions[i].ended_at)

(* C6: resize_pty with cols = 0 or rows = 0 on an active session returns  *)
(* the resize error and leaves the pty size unchanged.                    *)
C6_ZeroResizeFails ==
    [][\A t \in Threads, sz \in ResizeSizes, osOk \in BOOLEAN :
          (IsSome(pty) /\ (sz[1] = 0 \/ sz[2] = 0) /\ resize_pty_call(t, sz, osOk)) =>
              /\ ret'.res = "Failed to resize"
              /\ size' = size]_vars

(* C7: once a session's ended_at is non-null, no step appends an event    *)
(* with that session's id.                                                *)
C7_NoEventAfterEnd ==
    [][\A s \in DOMAIN sessions :
          IsSome(EndedAt(s)) => EventsOf(events', s) = EventsOf(events, s)]_vars

\* a session with an event was ended, and send_input has returned Ok since
C7_Witness ==
    /\ ret = Ret("send_input", "Ok")
    /\ \E s \in DOMAIN sessions : IsSome(EndedAt(s)) /\ EventsOf(events, s) # {}

(* C8: a session whose handle is in the registry has both pump threads    *)
(* launched, and a session whose handle has been dropped has its close    *)
(* recorded (ended_at non-null).                                          *)
C8_Lifecycle ==
    \A s \in SessIds :
        /\ handle[s] = "registry" => (reader[s] # "none" /\ writer[s] # "none")
        /\ handle[s] = "dropped" => (Created(s) /\ IsSome(EndedAt(s)))

(* C9: the ended_at of the session whose handle is in the registry is     *)
(* null; a non-null ended_at never changes; and end_session runs its      *)
(* UPDATE only for a session whose ended_at is still null.                *)
C9_EndedAtSetOnce ==
    /\ [](IsSome(pty) => (Created(Unwrap(pty)) /\ ~IsSome(EndedAt(Unwrap(pty)))))
    /\ [][/\ \A s \in DOMAIN sessions :
               IsSome(EndedAt(s)) => sessions'[s].ended_at = EndedAt(s)
          /\ \A t \in Threads :
               (pc[t] = "end_close" /\ pc'[t] = "idle") => ~IsSome(EndedAt(loc[t].sid))]_vars

\* two sessions were ended at different times, the first keeping its own
C9_Witness ==
    /\ Len(sessions) >= 2
    /\ IsSome(EndedAt(1)) /\ IsSome(EndedAt(2))
    /\ Unwrap(EndedAt(1)) < Unwrap(EndedAt(2))

(* C10: while the registry holds a session whose writer thread has        *)
(* exited, no buffer is accepted and a send_input call returns the write  *)
(* error; read_output never returns an error, and returns "no data" when  *)
(* the reader thread has exited and the output queue is empty; a pump     *)
(* thread's exit changes neither the registry nor any handle nor any      *)
(* session row.                                                           *)
C10_PumpDeathMasked ==
    [][/\ \A s \in SessIds :
            (handle[s] = "registry" /\ WriterExited(s)) => accepted'[s] = accepted[s]
       /\ (ret'.op = "send_input" /\ ReturnsAtOnce /\ IsSome(pty)
              /\ WriterExited(Unwrap(pty))) => ret'.res = "Failed to write input"
       /\ ret'.op = "read_output" => ret'.res \in {"Ok(None)", "Ok(Some)"}
       /\ (ret'.op = "read_output" /\ ReturnsAtOnce /\ IsSome(pty)
              /\ ReaderExited(Unwrap(pty)) /\ outq[Unwrap(pty)] = << >>)
             => ret'.res = "Ok(None)"
       /\ \A s \in SessIds :
            (reader'[s] = "done" /\ reader[s] # "done") \/
            (writer'[s] \in {"failed", "closed"} /\ writer[s] = "run")
               => UNCHANGED << pty, handle, sessions >>]_vars

\* send_input has failed on a session that is still in the registry, both of
\* whose pump threads have exited
C10_Witness ==
    /\ ret = Ret("send_input", "Failed to write input")
    /\ IsSome(pty)
    /\ handle[Unwrap(pty)] = "registry"
    /\ WriterExited(Unwrap(pty))
    /\ ReaderExited(Unwrap(pty))

(* C11: read_output never waits for pty data.  A thread that is idle can  *)
(* run read_output as soon as the registry lock is free, whatever the     *)
(* output queue and the reader thread are doing: when the registry holds  *)
(* a session whose queue has a chunk the call takes the oldest chunk,     *)
(* otherwise it returns Ok(None) in that same step.                       *)
C11_ReadOutputNeverWaits ==
    \A t \in Threads :
        (Idle(t) /\ ptyLock = NoThread) =>
            ENABLED (/\ read_output(t)
                     /\ IF IsSome(pty) /\ outq[Unwrap(pty)] # << >>
                        THEN /\ pc'[t] = "read_log"
                             /\ loc'[t].data = Head(outq[Unwrap(pty)])
                        ELSE ret' = Ret("read_output", "Ok(None)"))

\* read_output has returned Ok(None) on a session whose queue is empty while
\* its reader thread is still in its loop (blocked in read)
C11_Witness ==
    /\ ret = Ret("read_output", "Ok(None)")
    /\ IsSome(pty)
    /\ outq[Unwrap(pty)] = << >>
    /\ reader[Unwrap(pty)] = "run"

(* C12: a failed write to the store is handled by what was being         *)
(* written.  read_output returns the chunk whether or not its pty_out     *)
(* event was inserted; send_input returns Ok exactly when its user_in     *)
(* event was inserted and the log error otherwise; start_session returns  *)
(* the create error when the session row was not inserted; end_session    *)
(* returns Ok exactly when ended_at was written and the end error         *)
(* otherwise.                                                             *)
C12_LogFailureByKind ==
    [][/\ \A t \in Threads :
            /\ (pc[t] = "read_log" /\ pc'[t] = "idle") =>
                   /\ ret' = Ret("read_output", "Ok(Some)")
                   /\ \/ events' = events
                      \/ Len(events') = Len(events) + 1
            /\ (pc[t] = "send_log" /\ pc'[t] = "idle") =>
                   IF Len(events') = Len(events) + 1
                   THEN ret' = Ret("send_input", "Ok")
                   ELSE /\ events' = events
                        /\ ret' = Ret("send_input", "Failed to log input")
            /\ (pc[t] = "end_close" /\ pc'[t] = "idle") =>
                   IF IsSome(sessions'[loc[t].sid].ended_at)
                   THEN ret' = Ret("end_session", "Ok")
                   ELSE /\ sessions' = sessions
                        /\ ret' = Ret("end_session", "Failed to end session")
       /\ (ret'.op = "start_session" /\ ReturnsAtOnce /\ sessions' = sessions) =>
              ret'.res = "Failed to create session"
       /\ (ret'.op = "start_session" /\ ret'.res = "Ok") =>
              \E t \in Threads : pc[t] = "start_store" /\ Created(loc[t].sid)]_vars

\* read_output has returned a chunk none of whose events reached the store
C12_Witness ==
    /\ ret = Ret("read_output", "Ok(Some)")
    /\ events = << >>
    /\ \E s \in SessIds : Len(polled[s]) = 1

\* the row add_event inserts for thread t's chunk, as the last row of ev
LoggedRow(ev, t, kind) ==
    /\ ev # << >>
    /\ ev[Len(ev)].session_id = loc[t].sid
    /\ ev[Len(ev)].kind = kind
    /\ ev[Len(ev)].data = from_utf8_lossy(loc[t].data)
\* thread t returns from the second half of a command in this step
Finishes(t, at) == pc[t] = at /\ pc'[t] = "idle"
\* nothing but the logging half of read_output and send_input appends an
\* event, a send_input whose write failed appends none, no row is a marker
OnlyChunksAreLogged ==
    /\ events' # events =>
           \E t \in Threads : Finishes(t, "read_log") \/ Finishes(t, "send_log")
    /\ ret' = Ret("send_input", "Failed to write input") => events' = events
    /\ \A j \in DOMAIN events' : events'[j].kind \in {"pty_out", "user_in"}

(* C13: when read_output returns a chunk, exactly one pty_out event has   *)
(* been appended for it, and when a send_input whose buffer was accepted  *)
(* returns, exactly one user_in event has been appended for it; the event *)
(* carries the id of the session in the registry and the chunk's data (as *)
(* text); no other step appends an event, a send_input whose write fails  *)
(* appends none, and no event is a marker.                                *)
C13_EveryChunkLogged ==
    [][/\ \A t \in Threads :
            /\ Finishes(t, "read_log") =>
                   /\ pty = Some(loc[t].sid)
                   /\ Len(events') = Len(events) + 1
                   /\ SubSeq(events', 1, Len(events)) = events
                   /\ LoggedRow(events', t, "pty_out")
            /\ Finishes(t, "send_log") =>
                   /\ pty = Some(loc[t].sid)
                   /\ Len(events') = Len(events) + 1
                   /\ SubSeq(events', 1, Len(events)) = events
                   /\ LoggedRow(events', t, "user_in")
       /\ OnlyChunksAreLogged]_vars

(* C13, amended: as C13, except that the event is appended only when its  *)
(* insert succeeds.  When read_output returns a chunk, or a send_input    *)
(* whose buffer was accepted returns, either exactly one event of the     *)
(* kind has been appended for it, or the insert failed and none has; for  *)
(* send_input the first goes with Ok and the second with the log error.   *)
C13_ChunkLoggedUnlessInsertFails ==
    [][/\ \A t \in Threads :
            /\ Finishes(t, "read_log") =>
                   /\ pty = Some(loc[t].sid)
                   /\ \/ events' = events
                      \/ /\ Len(events') = Len(events) + 1
                         /\ SubSeq(events', 1, Len(events)) = events
                         /\ LoggedRow(events', t, "pty_out")
            /\ Finishes(t, "send_log") =>
                   /\ pty = Some(loc[t].sid)
                   /\ \/ /\ events' = events
                         /\ ret' = Ret("send_input", "Failed to log input")
                      \/ /\ Len(events') = Len(events) + 1
                         /\ SubSeq(events', 1, Len(events)) = events
                         /\ LoggedRow(events', t, "user_in")
                         /\ ret' = Ret("send_input", "Ok")
       /\ OnlyChunksAreLogged]_vars

\* one session has a user_in event and a pty_out event, one for each of the
\* buffer accepted and the chunk returned
C13_Witness ==
    \E s \in SessIds :
        /\ Len(accepted[s]) = 1 /\ Len(polled[s]) = 1
        /\ Len(events) = 2
        /\ \E i, j \in DOMAIN events :
              /\ events[i] = [session_id |-> s, ts |-> events[i].ts, kind |-> "user_in",
                              data |-> from_utf8_lossy(accepted[s][1])]
              /\ events[j] = [session_id |-> s, ts |-> events[j].ts, kind |-> "pty_out",
                              data |-> from_utf8_lossy(polled[s][1])]

\* the data of the events of one kind in r, concatenated in r's order
RECURSIVE DataOfKind(_, _)
DataOfKind(r, kind) ==
    IF r = << >> THEN << >>
    ELSE (IF Head(r).kind = kind THEN Head(r).data ELSE << >>)
            \o DataOfKind(Tail(r), kind)
\* no command is under way, and every buffer accepted for s and every chunk
\* returned from s has its event in the store
AllLogged(s) ==
    /\ \A t \in Threads : Idle(t)
    /\ Cardinality(EventsOf(events, s)) = Len(accepted[s]) + Len(polled[s])

(* C14: round trip.  For every session S, once every buffer accepted for  *)
(* S and every chunk returned from S has been logged, any result of       *)
(* get_events(S) is strictly ascending by ts, the bytes of its user_in    *)
(* events' data, concatenated, are the bytes write_input accepted for S,  *)
(* and the bytes of its pty_out events' data, concatenated, are the bytes *)
(* read_output returned from S.                                           *)
C14_RoundTrip ==
    \A s \in SessIds :
        AllLogged(s) =>
            \A r \in Db_get_events(events, s) :
                /\ \A a, b \in DOMAIN r : a < b => r[a].ts < r[b].ts
                /\ as_bytes(DataOfKind(r, "user_in")) = Concat(accepted[s])
                /\ as_bytes(DataOfKind(r, "pty_out")) = Concat(polled[s])

(* C15: after any sequence of create_command and end_command calls each  *)
(* session has at most one command whose ended_at is null; and a step     *)
(* that ends a command of a session sets ended_at and exit_code of        *)
(* exactly one row, an unterminated one of that session with the greatest *)
(* started_at, and changes no other row.                                  *)
C15_OneOpenCommand ==
    /\ [](\A sid \in SessIds : Cardinality(OpenCommands(commands, sid)) <= 1)
    /\ [][\A sid \in SessIds :
            LET ended == {i \in OpenCommands(commands, sid) :
                             IsSome(commands'[i].ended_at)}
            IN ended # {} =>
                  \E i \in MostRecentOpen(commands, sid) :
                      /\ ended = {i}
                      /\ IsSome(commands'[i].exit_code)
                      /\ \A j \in DOMAIN commands :
                            j # i => commands'[j] = commands[j]]_vars

(* C16: once a session's handle has been dropped, both of its pump       *)
(* threads eventually terminate.  (Behaviours that use up MaxOps are left *)
(* out, so that a thread that never ends is one that could still step.)   *)
C16_PumpsTerminate ==
    \A s \in SessIds :
        (handle[s] = "dropped") ~>
            ((ReaderExited(s) /\ WriterExited(s)) \/ Used = MaxOps)

(* C17: the pump threads take neither mutex of AppState.  In every state *)
(* a reader thread in its loop can read, a writer thread with a queued    *)
(* buffer can write it, and a writer thread whose queue is empty and      *)
(* whose sender is gone can end, whoever holds the `pty` and `db`         *)
(* mutexes.                                                               *)
C17_PumpsNeedNoLock ==
    \A s \in SessIds :
        /\ (reader[s] = "run" /\ Used < MaxOps) =>
               (ENABLED ReaderRead(s) /\ ENABLED ReaderEof(s))
        /\ (writer[s] = "run" /\ inq[s] # << >>) => ENABLED WriterWrite(s)
        /\ (writer[s] = "run" /\ inq[s] = << >> /\ ~WriterTxAlive(s)) =>
               ENABLED WriterClosed(s)

\* a send_input call still holds the `pty` mutex, another command holds the
\* `db` mutex, and the buffer that call queued has already been written
C17_Witness ==
    \E t \in Threads :
        /\ pc[t] = "send_log"
        /\ ptyLock = t
        /\ dbLock \notin {NoThread, t}
        /\ accepted[loc[t].sid] = << loc[t].data >>
        /\ written[loc[t].sid] = loc[t].data

\* thread t is inside a command and can take the command's next step
CanProceed(t) ==
    /\ pc[t] # "idle"
    /\ ENABLED (\/ start_session_store(t)
                \/ send_input_log(t)
                \/ read_output_log(t)
                \/ end_session_close(t))

(* C18: no interleaving of commands deadlocks on the `pty` and `db`       *)
(* mutexes: whenever some thread is inside a command waiting for its      *)
(* second mutex, at least one such thread can take it and run on to its   *)
(* return.                                                                *)
C18_NoLockDeadlock ==
    (\E t \in Threads : pc[t] # "idle") => (\E t \in Threads : CanProceed(t))

(* C19: while the registry holds no session, send_input and resize_pty   *)
(* return Ok and read_output returns Ok(None), in one step, and the step  *)
(* changes neither the registry nor any table nor any session's handle,   *)
(* queues, pty bytes, size or threads; no send_input or read_output gets  *)
(* as far as logging.                                                     *)
C19_NoSessionNoEffect ==
    [][/\ (~IsSome(pty) /\ ret'.op \in {"send_input", "read_output", "resize_pty"}) =>
              /\ ReturnsAtOnce
              /\ ret'.res = IF ret'.op = "read_output" THEN "Ok(None)" ELSE "Ok"
              /\ UNCHANGED << pty, locks, sessions, events, commands, handle, pumps >>
       /\ \A t \in Threads :
              (Idle(t) /\ pc'[t] \in {"send_log", "read_log"}) => IsSome(pty)]_vars

\* after a session has come and gone, resize_pty has returned Ok with the
\* registry empty
C19_Witness ==
    /\ ret = Ret("resize_pty", "Ok")
    /\ ~IsSome(pty)
    /\ \E s \in SessIds : handle[s] = "dropped"

\* f changes at most at session s in this step
OnlyAt(f, g, s) == \A u \in SessIds : u # s => g[u] = f[u]

(* C20: sessions are isolated.  A chunk that read_output takes is the     *)
(* oldest chunk queued by the reader thread of the session the registry   *)
(* holds, and no other session's queue or history is touched; a buffer    *)
(* that send_input gets accepted is queued for the writer thread of that  *)
(* session only; an event is appended under the id of the session the     *)
(* registry holds at that moment; a writer thread writes to its own pty   *)
(* only bytes from the head of its own queue, and a reader thread queues  *)
(* what it read on its own session's queue only.  At any time a session's *)
(* queues hold nothing but that session's own chunks and buffers.         *)
C20_SessionsIsolated ==
    /\ [][/\ \A t \in Threads :
               /\ (Idle(t) /\ pc'[t] = "read_log") =>
                      LET s == loc'[t].sid IN
                      /\ pty = Some(s) /\ outq[s] # << >>
                      /\ loc'[t].data = Head(outq[s])
                      /\ polled'[s] = Append(polled[s], Head(outq[s]))
                      /\ OnlyAt(polled, polled', s) /\ OnlyAt(outq, outq', s)
               /\ (Idle(t) /\ pc'[t] = "send_log") =>
                      LET s == loc'[t].sid IN
                      /\ pty = Some(s)
                      /\ inq'[s] = Append(inq[s], loc'[t].data)
                      /\ accepted'[s] = Append(accepted[s], loc'[t].data)
                      /\ OnlyAt(accepted, accepted', s) /\ OnlyAt(inq, inq', s)
               /\ ((Finishes(t, "read_log") \/ Finishes(t, "send_log"))
                       /\ events' # events) =>
                      /\ pty = Some(loc[t].sid)
                      /\ events'[Len(events')].session_id = loc[t].sid
           /\ \A s \in SessIds :
               /\ written'[s] # written[s] =>
                      /\ inq[s] # << >>
                      /\ \E k \in 1 .. Len(Head(inq[s])) :
                            written'[s] = written[s] \o SubSeq(Head(inq[s]), 1, k)
               /\ Len(outq'[s]) > Len(outq[s]) =>
                      /\ readChunks'[s] = Append(readChunks[s], outq'[s][Len(outq'[s])])
                      /\ OnlyAt(outq, outq', s)]_vars
    /\ [](\A s \in SessIds :
            /\ \E k \in 0 .. Len(readChunks[s]) :
                  outq[s] = SubSeq(readChunks[s], k + 1, Len(readChunks[s]))
            /\ \E k \in 0 .. Len(accepted[s]) :
                  inq[s] = SubSeq(accepted[s], k + 1, Len(accepted[s])))

\* session 1 was replaced by session 2; read_output has since returned a
\* chunk of session 2, logged under session 2's id, and none of session 1
C20_Witness ==
    /\ pty = Some(2)
    /\ handle[1] = "dropped"
    /\ ret = Ret("read_output", "Ok(Some)")
    /\ polled[1] = << >>
    /\ Len(polled[2]) = 1
    /\ events # << >>
    /\ \A j \in DOMAIN events : events[j].session_id = 2

====
